---- MODULE Spec2Model ----
(***************************************************************************)
(* The client reconnecting socket of the dashboard: the React hook         *)
(* useWebSocket (frontend/src/hooks/useWebSocket.ts), together with the    *)
(* browser objects it drives: WebSocket transports and setTimeout timers.  *)
(*                                                                         *)
(* One instance of the hook is modelled.  Every action is one task of the  *)
(* single-threaded event loop: an effect run or cleanup, a timer callback, *)
(* a transport event handler, or a call of send by the application.        *)
(***************************************************************************)
EXTENDS Integers, Sequences, FiniteSets, TLC

\* ------------------------------------------------------------------ bounds
\* calls of `new WebSocket` made during one run of the model
MaxAttempts == 3
\* effect re-runs (changes of url / enabled / reconnectInterval)
MaxReruns == 1
\* frames the transports dispatch to onmessage
MaxFrames == 2
\* calls of send made by the application
MaxSends == 1
\* connection handles the server creates during one run of the model
MaxConns == 3
\* events the dispatcher broadcasts during one run of the model
MaxEvents == 2
\* API requests the page issues during one run of the model
MaxRequests == 4
\* calls of startFrameLoop made during one run of the model
MaxStarts == 2
\* runs of the frame loop's timer callback during one run of the model
MaxTicks == 3

\* --------------------------------------------------------------- constants
\* reconnectInterval = 3000 (default parameter of the hook)
DefaultInterval == 3000

\* the reconnect intervals a caller configures in the model
Intervals == {DefaultInterval, DefaultInterval + 2000}

\* the props of the hook that the connect closure captures
Props == [enabled : BOOLEAN, reconnectInterval : Intervals]

\* JSON null, which is also the initial value of lastMessage
Null == [kind |-> "null"]

\* text frames a server may send: a JSON object, the JSON text null, and a
\* heartbeat frame that is not JSON
Frames == {"{\"type\":\"stats\"}", "null", "ping"}

\* the pages the dashboard is served from, and the endpoint paths the
\* pages pass to the hook (Dashboard and Monitor pass '/api/ws/dashboard')
PageProtocols == {"http:", "https:"}
PageHosts == {"localhost:5173", "uav.example.com"}
Paths == {"/api/ws/dashboard", "/api/ws/telemetry"}

VARIABLES
  phase,          \* "init" (rendered, effect not yet run), "mounted", "unmounted"
  props,          \* the props of the latest render
  reruns,         \* number of effect re-runs so far
  connected,      \* useState(false)
  lastMessage,    \* useState(null)
  wsRef,          \* wsRef.current: 0 is null, else the id of a transport
  reconnectTimer, \* reconnectTimer.current: 0 is null, else a timer id
  sockets,        \* the WebSocket objects created so far, by id
  timers,         \* the setTimeout timers that are pending
  timerCount,     \* number of setTimeout calls made (timer ids are 1..timerCount)
  attempts,       \* number of `new WebSocket` calls made, throwing ones included
  received,       \* the frames dispatched to onmessage, in order
  delivered,      \* the payloads the onMessage callback was invoked with, in order
  sent,           \* what send put on the wire: <<transport id, text>>
  sends,          \* number of calls of send
  uncaught,       \* an exception escaped a handler of the hook
  closedFrom,     \* the state the socket was in when it was disposed, and whether
                  \* a reconnect timer was pending then (state "none" before)
  location,       \* window.location of the page: its protocol and its host
  url             \* the url prop of the hook: the path of the endpoint

VARIABLES
  registry,       \* channel -> the set of connections registered on it
  conn,           \* connection handle -> "fresh" (not created yet), "open"
                  \* or "closed" (transport closed, or handle destroyed)
  bc,             \* the broadcast in progress, or the last one that returned
  inbox,          \* connection handle -> the events its client received
  lastOp,         \* the last call made on the registry
  raised,         \* a call on the registry raised to its caller
  events          \* the number of events broadcast so far

VARIABLES
  localToken,     \* localStorage.getItem('token')
  token,          \* useAuthStore: token
  user,           \* useAuthStore: user
  pathname,       \* window.location.pathname
  guardMounted,   \* an AuthGuard is mounted (the route is a protected one)
  checking,       \* AuthGuard: useState(true)
  reqs,           \* the API requests in flight
  nreq,           \* the number of API requests issued since the page loaded
  reloadPending,  \* window.location.href was assigned: a page load is due
  intercepted,    \* what the response interceptor did with the last response
  loginResult     \* what the last call of login() that returned, returned

VARIABLES
  frameLoopRef,    \* frameLoopRef.current: a timer id, or 0 for null
  detectingRef,    \* detectingRef.current
  frameTimers,     \* the pending timers whose callback is a loop closure
  frameTimerCount, \* the number of timers setTimeout has created for loops
  blobs,           \* the canvas.toBlob callbacks that are pending
  frameReqs,       \* the frame requests in flight
  starts,          \* the number of calls of startFrameLoop
  ticks,           \* the number of runs of a loop closure
  captured,        \* the number of frames drawn to the capture canvas
  framesSent,      \* the number of frames sent to the backend
  loopOn           \* startFrameLoop was called and stopFrameLoop not since

\* the state of the hook and of its transports and timers
hookVars == <<phase, props, reruns, connected, lastMessage, wsRef, reconnectTimer,
              sockets, timers, timerCount, attempts, received, delivered, sent,
              sends, uncaught, closedFrom>>

\* the page's location and the url prop
envVars == <<location, url>>

\* the server's connection registry and the broadcast in progress
regVars == <<registry, conn, bc, inbox, lastOp, raised, events>>

\* localStorage, the auth store, the router and the route guard
authVars == <<localToken, token, user, pathname, guardMounted, checking, reqs,
              nreq, reloadPending, intercepted, loginResult>>

\* the frame loop of a page (Tracking, Detection)
loopVars == <<frameLoopRef, detectingRef, frameTimers, frameTimerCount, blobs,
              frameReqs, starts, ticks, captured, framesSent, loopOn>>

\* what no task of the hook changes
otherVars == <<envVars, regVars, authVars, loopVars>>

vars == <<hookVars, otherVars>>

\* -------------------------------------------------- the hook's mutable cell
\* The refs, the browser objects and the connected flag, as one record, so
\* that the handlers below compose the way the statements of the code do.
Cur ==
  [connected |-> connected, wsRef |-> wsRef, reconnectTimer |-> reconnectTimer,
   sockets |-> sockets, timers |-> timers, timerCount |-> timerCount,
   attempts |-> attempts]

Commit(s) ==
  /\ connected' = s.connected
  /\ wsRef' = s.wsRef
  /\ reconnectTimer' = s.reconnectTimer
  /\ sockets' = s.sockets
  /\ timers' = s.timers
  /\ timerCount' = s.timerCount
  /\ attempts' = s.attempts

\* ----------------------------------------------------------- browser model
\* setTimeout(connect, delay): a fresh timer id; the callback is the connect
\* closure cl
SetTimeout(s, cl, delay) ==
  [s EXCEPT !.timerCount = @ + 1,
            !.timers = @ \cup {[id |-> s.timerCount + 1, cl |-> cl, delay |-> delay]}]

\* clearTimeout(id): cancels the timer if it is still pending
ClearTimeout(s, id) ==
  [s EXCEPT !.timers = {t \in @ : t.id # id}]

\* WebSocket.close(): starts the closing handshake of a connecting or open
\* transport; a no-op on one that is closing or closed
WsClose(s, w) ==
  IF s.sockets[w].readyState \in {"CONNECTING", "OPEN"}
  THEN [s EXCEPT !.sockets[w].readyState = "CLOSING"]
  ELSE s

\* ------------------------------------------------------------ JSON, frames
\* JSON.parse(event.data): the parsed payload, or a SyntaxError
JSONparse(text) ==
  CASE text = "{\"type\":\"stats\"}" -> [ok |-> TRUE, value |-> [kind |-> "object", type |-> "stats"]]
    [] text = "null" -> [ok |-> TRUE, value |-> Null]
    [] OTHER -> [ok |-> FALSE, value |-> Null]

\* the application's onMessage callback (Dashboard.handleWsMessage,
\* Monitor.handleWsMessage) reads data.type first: it throws a TypeError on
\* the payload null
CallbackThrows(data) == data = Null

\* what the application passes to send: a string, or an object
SendData == {[kind |-> "string", text |-> "ping"], [kind |-> "object", type |-> "subscribe"]}

\* typeof data === 'string' ? data : JSON.stringify(data)
Serialize(data) ==
  IF data.kind = "string" THEN data.text
  ELSE "{\"type\":\"" \o data.type \o "\"}"

\* ---------------------------------------------------------------- the hook
\* the connect closure of a render: it captures url, enabled and
\* reconnectInterval
Closure(p) ==
  [enabled |-> p.enabled, reconnectInterval |-> p.reconnectInterval, url |-> url]

\* WsUrl with a fault: the scheme is always ws:
WsUrl_AlwaysPlain(loc, path) == "ws:" \o "//" \o loc.host \o path

\* the address connect() builds: protocol is 'wss:' when the page's protocol
\* is 'https:' and 'ws:' otherwise; wsUrl = `${protocol}//${host}${url}`
WsUrl(loc, path) ==
  LET protocol == IF loc.protocol = "https:" THEN "wss:" ELSE "ws:"
  IN  protocol \o "//" \o loc.host \o path

\* the delay the code passes to setTimeout
ReconnectDelay(s, cl) == cl.reconnectInterval

\* reconnectTimer.current = setTimeout(connect, reconnectInterval)
ScheduleReconnect(s, cl) ==
  LET s1 == SetTimeout(s, cl, ReconnectDelay(s, cl))
  IN  [s1 EXCEPT !.reconnectTimer = s1.timerCount]

\* Connect with a fault: the catch block is empty
Connect_CatchSchedulesNothing(s, cl, throws) ==
  IF ~cl.enabled THEN s
  ELSE IF throws
    THEN [s EXCEPT !.attempts = @ + 1]
    ELSE [s EXCEPT !.attempts = @ + 1,
                   !.sockets = Append(@, [readyState |-> "CONNECTING",
                                           opened |-> FALSE, cl |-> cl,
                                           url |-> WsUrl(location, cl.url)]),
                   !.wsRef = Len(s.sockets) + 1]

\* connect(): returns at once when not enabled; otherwise constructs a
\* transport and stores it in wsRef; when the constructor throws, the catch
\* block schedules a reconnect
Connect(s, cl, throws) ==
  IF ~cl.enabled THEN s
  ELSE IF throws
    THEN ScheduleReconnect([s EXCEPT !.attempts = @ + 1], cl)
    ELSE [s EXCEPT !.attempts = @ + 1,
                   !.sockets = Append(@, [readyState |-> "CONNECTING",
                                           opened |-> FALSE, cl |-> cl,
                                           url |-> WsUrl(location, cl.url)]),
                   !.wsRef = Len(s.sockets) + 1]

\* ws.onopen
OnOpen(s, w) ==
  LET s1 == [s EXCEPT !.connected = TRUE]
  IN  IF s1.reconnectTimer # 0
      THEN [ClearTimeout(s1, s1.reconnectTimer) EXCEPT !.reconnectTimer = 0]
      ELSE s1

\* OnClose with a fault: a transport that never opened is not retried
OnClose_RetryOnlyAfterOpen(s, w) ==
  LET s1 == [s EXCEPT !.connected = FALSE, !.wsRef = 0]
  IN  IF s.sockets[w].cl.enabled /\ s.sockets[w].opened
      THEN ScheduleReconnect(s1, s.sockets[w].cl)
      ELSE s1

\* OnClose with a fault: setConnected(false) is missing
OnClose_KeepsConnected(s, w) ==
  LET s1 == [s EXCEPT !.wsRef = 0]
  IN  IF s.sockets[w].cl.enabled
      THEN ScheduleReconnect(s1, s.sockets[w].cl)
      ELSE s1

\* ws.onclose: the enabled it tests is the one its connect closure captured
OnClose(s, w) ==
  LET s1 == [s EXCEPT !.connected = FALSE, !.wsRef = 0]
  IN  IF s.sockets[w].cl.enabled
      THEN ScheduleReconnect(s1, s.sockets[w].cl)
      ELSE s1

\* ws.onerror
OnError(s, w) == WsClose(s, w)

\* Escapes with a fault: the catch block throws again what it caught
Escapes_Rethrows(threw) == threw

\* the catch block of onmessage: it is empty, so whatever the try block
\* threw, nothing escapes the handler
Escapes(threw) == FALSE

\* OnMessage with a fault: JSON.parse stands outside the try block, so its
\* SyntaxError escapes the handler
OnMessage_ParseUnguarded(text) ==
  LET r == JSONparse(text)
  IN  IF r.ok
      THEN [lastMessage |-> r.value, delivered |-> Append(delivered, r.value),
            uncaught |-> Escapes(CallbackThrows(r.value))]
      ELSE [lastMessage |-> lastMessage, delivered |-> delivered, uncaught |-> TRUE]

\* OnMessage with a fault: a payload is handed to the callback ahead of the
\* payloads that arrived before it
OnMessage_NewestFirst(text) ==
  LET r == JSONparse(text)
  IN  IF r.ok
      THEN [lastMessage |-> r.value, delivered |-> <<r.value>> \o delivered,
            uncaught |-> Escapes(CallbackThrows(r.value))]
      ELSE [lastMessage |-> lastMessage, delivered |-> delivered,
            uncaught |-> Escapes(TRUE)]

\* OnMessage with a fault: the callback is invoked before setLastMessage,
\* so a callback that throws leaves the try block before lastMessage is set
OnMessage_CallbackFirst(text) ==
  LET r == JSONparse(text)
  IN  IF r.ok
      THEN [lastMessage |-> IF CallbackThrows(r.value) THEN lastMessage ELSE r.value,
            delivered |-> Append(delivered, r.value),
            uncaught |-> Escapes(CallbackThrows(r.value))]
      ELSE [lastMessage |-> lastMessage, delivered |-> delivered,
            uncaught |-> Escapes(TRUE)]

\* ws.onmessage: JSON.parse, then setLastMessage, then the callback, all in
\* one try block.  A frame that does not parse leaves the try block at
\* JSON.parse; an exception of the callback leaves it after the callback was
\* invoked.
OnMessage(text) ==
  LET r == JSONparse(text)
  IN  IF r.ok
      THEN [lastMessage |-> r.value, delivered |-> Append(delivered, r.value),
            uncaught |-> Escapes(CallbackThrows(r.value))]
      ELSE [lastMessage |-> lastMessage, delivered |-> delivered,
            uncaught |-> Escapes(TRUE)]

\* the cleanup of the effect
Cleanup(s) ==
  LET s1 == IF s.reconnectTimer # 0 THEN ClearTimeout(s, s.reconnectTimer) ELSE s
  IN  IF s1.wsRef # 0
      THEN [WsClose(s1, s1.wsRef) EXCEPT !.wsRef = 0]
      ELSE s1

\* send(data): the text it transmits on wsRef.current, or nothing
SendOn(s, data) ==
  IF s.wsRef # 0 /\ s.sockets[s.wsRef].readyState = "OPEN"
  THEN <<<<s.wsRef, Serialize(data)>>>>
  ELSE <<>>

\* ------------------------------------------------- the state of the socket
\* A transport is live until its close event has been dispatched.
Live(w) == sockets[w].readyState # "CLOSED"

SocketIds == 1..Len(sockets)

\* The state of the socket in the terms of the specification: Closed once it
\* is disposed; else Connected while a transport that opened has not had its
\* close event, Connecting while one is on its way to open, else Disconnected.
SocketState ==
  IF phase = "unmounted" THEN "Closed"
  ELSE IF \E w \in SocketIds : Live(w) /\ sockets[w].opened THEN "Connected"
  ELSE IF \E w \in SocketIds : Live(w) THEN "Connecting"
  ELSE "Disconnected"

\* ------------------------------------------ the server: connection registry
\* the channel the pages subscribe to ('/api/ws/dashboard'); a connection
\* handle is opaque and unique
Channels == {"dashboard"}
Conns == 1..MaxConns

NoBroadcast ==
  [stage |-> "none", channel |-> "dashboard", event |-> 0, snapshot |-> {},
   pending |-> {}, got |-> {}, failed |-> {}]

\* register(channel, connection): adds the connection to the channel's set
Register(reg, ch, c) == [reg EXCEPT ![ch] = @ \cup {c}]

\* unregister(channel, connection): removes the connection; removing an
\* absent connection is a no-op
Unregister(reg, ch, c) == [reg EXCEPT ![ch] = @ \ {c}]

\* UnregisterRaises with a fault: removing an absent connection is an error
UnregisterRaises_WhenAbsent(reg, ch, c) == c \notin reg[ch]

\* unregister never raises
UnregisterRaises(reg, ch, c) == FALSE

\* Destroy with a fault: a connection removed explicitly stays usable
Destroy_KeepsOpen(cs, c) == cs

\* a connection is destroyed on transport close or explicit removal:
\* nothing can be delivered to it afterwards
Destroy(cs, c) == [cs EXCEPT ![c] = "closed"]

\* the set broadcast iterates over: the connections registered on the
\* channel at the time its iteration begins
Snapshot(reg, ch) == reg[ch]

\* ToVisit with a fault: broadcast iterates over the channel's set itself,
\* not over what it held when the iteration began
ToVisit_LiveSet(b, reg) == reg[b.channel] \ (b.got \cup b.failed)

\* the connections the broadcast in progress has yet to deliver to
ToVisit(b, reg) == b.pending

\* DeliverTo with a fault: a failing delivery raises out of broadcast, which
\* abandons the connections it has not delivered to
DeliverTo_FailureAborts(b, reg, cs, c) ==
  IF cs[c] = "open"
  THEN [bc |-> [b EXCEPT !.pending = b.pending \ {c}, !.got = @ \cup {c}],
        registry |-> reg, receives |-> TRUE, raised |-> FALSE]
  ELSE [bc |-> [b EXCEPT !.pending = {}, !.failed = @ \cup {c}],
        registry |-> reg, receives |-> FALSE, raised |-> TRUE]

\* one delivery of broadcast: a connection whose transport is closed fails;
\* the failure is isolated, and the connection is unregistered as a side
\* effect
DeliverTo(b, reg, cs, c) ==
  IF cs[c] = "open"
  THEN [bc |-> [b EXCEPT !.pending = b.pending \ {c}, !.got = @ \cup {c}],
        registry |-> reg, receives |-> TRUE, raised |-> FALSE]
  ELSE [bc |-> [b EXCEPT !.pending = b.pending \ {c}, !.failed = @ \cup {c}],
        registry |-> Unregister(reg, b.channel, c), receives |-> FALSE,
        raised |-> FALSE]

RegInit ==
  /\ registry = [ch \in Channels |-> {}]
  /\ conn = [c \in Conns |-> "fresh"]
  /\ bc = NoBroadcast
  /\ inbox = [c \in Conns |-> <<>>]
  /\ lastOp = [op |-> "none"]
  /\ raised = FALSE
  /\ events = 0

\* a handshake succeeds: the next fresh handle is created and registered
RegisterCall ==
  /\ \E c \in Conns : \E ch \in Channels :
       /\ conn[c] = "fresh"
       /\ \A d \in 1..(c - 1) : conn[d] # "fresh"
       /\ conn' = [conn EXCEPT ![c] = "open"]
       /\ registry' = Register(registry, ch, c)
       /\ lastOp' = [op |-> "register", channel |-> ch, conn |-> c]
  /\ UNCHANGED <<bc, inbox, raised, events>>
  /\ UNCHANGED <<hookVars, envVars, authVars, loopVars>>

\* the transport of a connection closes (the client went away); its
\* endpoint handler has not called unregister yet
TransportClose ==
  /\ \E c \in Conns :
       /\ conn[c] = "open"
       /\ conn' = Destroy(conn, c)
  /\ UNCHANGED <<registry, bc, inbox, lastOp, raised, events>>
  /\ UNCHANGED <<hookVars, envVars, authVars, loopVars>>

\* unregister is called, for any handle and any channel: by the endpoint
\* handler of a closed transport, or as an explicit removal
UnregisterCall ==
  /\ \E c \in Conns : \E ch \in Channels :
       /\ registry' = Unregister(registry, ch, c)
       /\ conn' = IF c \in registry[ch] THEN Destroy(conn, c) ELSE conn
       /\ raised' = (raised \/ UnregisterRaises(registry, ch, c))
       /\ lastOp' = [op |-> "unregister", channel |-> ch, conn |-> c,
                     absent |-> c \notin registry[ch],
                     again |-> /\ lastOp.op = "unregister"
                               /\ lastOp.channel = ch /\ lastOp.conn = c]
  /\ UNCHANGED <<bc, inbox, events>>
  /\ UNCHANGED <<hookVars, envVars, authVars, loopVars>>

\* broadcast(channel, event) is called: its iteration begins
BroadcastCall ==
  /\ bc.stage # "iterating"
  /\ events < MaxEvents
  /\ \E ch \in Channels :
       bc' = [stage |-> "iterating", channel |-> ch, event |-> events + 1,
              snapshot |-> Snapshot(registry, ch),
              pending |-> Snapshot(registry, ch), got |-> {}, failed |-> {}]
  /\ events' = events + 1
  /\ lastOp' = [op |-> "broadcast"]
  /\ UNCHANGED <<registry, conn, inbox, raised>>
  /\ UNCHANGED <<hookVars, envVars, authVars, loopVars>>

\* broadcast delivers the event to one more connection; the order across
\* connections is unspecified
BroadcastDeliver ==
  /\ bc.stage = "iterating"
  /\ \E c \in ToVisit(bc, registry) :
       LET d == DeliverTo(bc, registry, conn, c)
       IN  /\ bc' = d.bc
           /\ registry' = d.registry
           /\ raised' = (raised \/ d.raised)
           /\ inbox' = IF d.receives THEN [inbox EXCEPT ![c] = Append(@, bc.event)]
                        ELSE inbox
  /\ UNCHANGED <<conn, lastOp, events>>
  /\ UNCHANGED <<hookVars, envVars, authVars, loopVars>>

\* broadcast has nothing left to deliver to and returns to its caller
BroadcastReturn ==
  /\ bc.stage = "iterating"
  /\ ToVisit(bc, registry) = {}
  /\ bc' = [bc EXCEPT !.stage = "returned"]
  /\ UNCHANGED <<registry, conn, inbox, lastOp, raised, events>>
  /\ UNCHANGED <<hookVars, envVars, authVars, loopVars>>

NextRegistry ==
  \/ RegisterCall
  \/ TransportClose
  \/ UnregisterCall
  \/ BroadcastCall
  \/ BroadcastDeliver
  \/ BroadcastReturn

\* ----------------------------------- the page: api client, auth store, guard
NoToken == "none"
NoUser == "none"
\* the access tokens the server issues, and the users it knows
Tokens == {"jwt"}
Users == {"operator"}
\* the routes: /login is public, every route under / is behind AuthGuard
Pathnames == {"/login", "/dashboard"}
\* the statuses of a response; 0 stands for no response (network error)
Statuses == {200, 401, 429, 500, 0}

AuthCur ==
  [localToken |-> localToken, token |-> token, user |-> user,
   pathname |-> pathname, guardMounted |-> guardMounted, checking |-> checking,
   reqs |-> reqs, nreq |-> nreq, reloadPending |-> reloadPending,
   intercepted |-> intercepted, loginResult |-> loginResult]

\* the page is in state s
AuthIs(s) ==
  /\ localToken = s.localToken
  /\ token = s.token
  /\ user = s.user
  /\ pathname = s.pathname
  /\ guardMounted = s.guardMounted
  /\ checking = s.checking
  /\ reqs = s.reqs
  /\ nreq = s.nreq
  /\ reloadPending = s.reloadPending
  /\ intercepted = s.intercepted
  /\ loginResult = s.loginResult

AuthCommit(s) ==
  /\ localToken' = s.localToken
  /\ token' = s.token
  /\ user' = s.user
  /\ pathname' = s.pathname
  /\ guardMounted' = s.guardMounted
  /\ checking' = s.checking
  /\ reqs' = s.reqs
  /\ nreq' = s.nreq
  /\ reloadPending' = s.reloadPending
  /\ intercepted' = s.intercepted
  /\ loginResult' = s.loginResult

\* api.get / api.post: the request is sent; guard tells whether an AuthGuard
\* waits for it with fetchMe().finally(...)
Request(s, api, by, guard) ==
  [s EXCEPT !.nreq = @ + 1,
            !.reqs = @ \cup {[id |-> s.nreq + 1, api |-> api, by |-> by,
                               guard |-> guard]}]

\* OnRejected with a fault: the token is removed whatever the status is
OnRejected_ClearsOnAnyError(s, status) ==
  [s EXCEPT !.localToken = NoToken,
            !.reloadPending = @ \/ (status = 401 /\ s.pathname # "/login")]

\* the response interceptor's error handler, up to its return: on 401 it
\* removes the token from localStorage and assigns window.location.href
\* unless the path is /login already
OnRejected(s, status) ==
  IF status = 401
  THEN [s EXCEPT !.localToken = NoToken,
                 !.reloadPending = @ \/ (s.pathname # "/login")]
  ELSE s

\* how the response interceptor settles the promise of the request: a
\* response with a 2xx status resolves it with response.data, anything else
\* rejects it with the error it was given
Settles(status) ==
  IF status = 200 THEN [outcome |-> "resolved", status |-> status]
  ELSE [outcome |-> "rejected", status |-> status]

\* what AuthGuard returns
GuardShows(tok, chk) ==
  IF tok = NoToken THEN "redirect"
  ELSE IF chk THEN "checking"
  ELSE "children"

\* the AuthGuard goes away with its route; the finally callbacks that wait
\* for a fetchMe act on a component that is gone
UnmountGuard(s) ==
  [s EXCEPT !.guardMounted = FALSE,
            !.reqs = {[r EXCEPT !.guard = FALSE] : r \in s.reqs}]

\* GuardEffect with a fault: the effect never waits for fetchMe
GuardEffect_NeverWaits(s) == [s EXCEPT !.checking = FALSE]

\* the effect of AuthGuard
GuardEffect(s) ==
  IF s.token # NoToken /\ s.user = NoUser
  THEN Request(s, "getMe", "fetchMe", TRUE)
  ELSE [s EXCEPT !.checking = FALSE]

\* <Navigate to="/login" replace />
GuardRedirect(s) == UnmountGuard([s EXCEPT !.pathname = "/login"])

\* an AuthGuard mounts: its first render and its effect
MountGuard(s) ==
  LET s1 == [s EXCEPT !.guardMounted = TRUE, !.checking = TRUE]
  IN  IF GuardShows(s1.token, s1.checking) = "redirect"
      THEN GuardRedirect(s1)
      ELSE GuardEffect(s1)

\* set({...}) of the store, and the render it causes: a mounted AuthGuard
\* renders again, and its effect runs again when token or user changed
SetStore(s, tok, usr, changed) ==
  LET s1 == [s EXCEPT !.token = tok, !.user = usr]
  IN  IF ~s.guardMounted THEN s1
      ELSE IF GuardShows(s1.token, s1.checking) = "redirect" THEN GuardRedirect(s1)
      ELSE IF changed THEN GuardEffect(s1)
      ELSE s1

\* the router shows the route of a path
Route(s, path) ==
  IF path = "/login" THEN UnmountGuard([s EXCEPT !.pathname = path])
  ELSE IF s.guardMounted THEN [s EXCEPT !.pathname = path]
  ELSE MountGuard([s EXCEPT !.pathname = path])

\* the page after its script has run: the store takes its token from
\* localStorage, no user is known yet
Loaded(lt) ==
  [localToken |-> lt, token |-> lt, user |-> NoUser, pathname |-> "/login",
   guardMounted |-> FALSE, checking |-> TRUE, reqs |-> {}, nreq |-> 0,
   reloadPending |-> FALSE, intercepted |-> [status |-> -1],
   loginResult |-> "none"]

\* the continuation of the caller of a request whose promise was settled
Continue(s, r, settled) ==
  CASE r.by = "fetchMe" ->
         LET s1 == IF settled.outcome = "resolved"
                   THEN SetStore(s, s.token, "operator", TRUE)
                   ELSE SetStore([s EXCEPT !.localToken = NoToken],
                                 NoToken, NoUser, TRUE)
         IN  IF r.guard /\ s1.guardMounted THEN [s1 EXCEPT !.checking = FALSE]
             ELSE s1
    [] r.by = "login" /\ r.api = "login" ->
         IF settled.outcome = "resolved"
         THEN Request(SetStore([s EXCEPT !.localToken = "jwt"], "jwt", s.user,
                               s.token # "jwt"),
                      "getMe", "login", FALSE)
         ELSE [s EXCEPT !.loginResult = "false"]
    [] r.by = "login" /\ r.api = "getMe" ->
         IF settled.outcome = "resolved"
         THEN Route([SetStore(s, s.token, "operator", TRUE)
                       EXCEPT !.loginResult = "true"], "/dashboard")
         ELSE [s EXCEPT !.loginResult = "false"]
    [] OTHER -> s

\* a response arrives: the interceptor, then the caller's continuation
Respond(s, r, status) ==
  LET s0 == [s EXCEPT !.reqs = @ \ {r}]
      s1 == IF Settles(status).outcome = "rejected" THEN OnRejected(s0, status)
            ELSE s0
      s2 == [s1 EXCEPT !.intercepted =
               [status |-> status, req |-> r.id, outcome |-> Settles(status).outcome,
                error |-> Settles(status).status, before |-> s.localToken,
                after |-> s1.localToken, path |-> s.pathname,
                href |-> s1.reloadPending /\ ~s.reloadPending]]
  IN  Continue(s2, r, Settles(status))

AuthInit ==
  \E lt \in Tokens \cup {NoToken} : \E path \in Pathnames :
     AuthIs(Route(Loaded(lt), path))

\* the page loads anew: at /login when window.location.href was assigned,
\* at any path when the user opens it
PageLoad ==
  /\ \E path \in Pathnames :
       /\ reloadPending => path = "/login"
       /\ AuthCommit(Route(Loaded(localToken), path))
  /\ UNCHANGED <<hookVars, envVars, regVars, loopVars>>

\* the user goes to another route without a page load (history, links)
UserNavigate ==
  /\ \E path \in Pathnames \ {pathname} :
       LET s1 == Route(AuthCur, path)
       IN  s1.nreq <= MaxRequests /\ AuthCommit(s1)
  /\ UNCHANGED <<hookVars, envVars, regVars, loopVars>>

\* Login.handleSubmit calls login()
SubmitLogin ==
  /\ pathname = "/login"
  /\ nreq < MaxRequests
  /\ AuthCommit(Request(AuthCur, "login", "login", FALSE))
  /\ UNCHANGED <<hookVars, envVars, regVars, loopVars>>

\* Layout.handleLogout: logout(), then navigate('/login')
ClickLogout ==
  /\ guardMounted /\ GuardShows(token, checking) = "children"
  /\ AuthCommit(Route(SetStore([AuthCur EXCEPT !.localToken = NoToken],
                                NoToken, NoUser, TRUE), "/login"))
  /\ UNCHANGED <<hookVars, envVars, regVars, loopVars>>

\* a page behind the guard calls the API
PageRequest ==
  /\ guardMounted /\ GuardShows(token, checking) = "children"
  /\ nreq < MaxRequests
  /\ AuthCommit(Request(AuthCur, "list", "page", FALSE))
  /\ UNCHANGED <<hookVars, envVars, regVars, loopVars>>

\* the response to a request arrives, with any status
ResponseArrives ==
  /\ \E r \in reqs : \E status \in Statuses :
       LET s1 == Respond(AuthCur, r, status)
       IN  s1.nreq <= MaxRequests /\ AuthCommit(s1)
  /\ UNCHANGED <<hookVars, envVars, regVars, loopVars>>

NextAuth ==
  \/ PageLoad
  \/ UserNavigate
  \/ SubmitLogin
  \/ ClickLogout
  \/ PageRequest
  \/ ResponseArrives

\* ------------------------------------------------ the page: the frame loop
LoopCur ==
  [frameLoopRef |-> frameLoopRef, detectingRef |-> detectingRef,
   frameTimers |-> frameTimers, frameTimerCount |-> frameTimerCount,
   blobs |-> blobs, frameReqs |-> frameReqs, captured |-> captured,
   framesSent |-> framesSent]

LoopCommit(s) ==
  /\ frameLoopRef' = s.frameLoopRef
  /\ detectingRef' = s.detectingRef
  /\ frameTimers' = s.frameTimers
  /\ frameTimerCount' = s.frameTimerCount
  /\ blobs' = s.blobs
  /\ frameReqs' = s.frameReqs
  /\ captured' = s.captured
  /\ framesSent' = s.framesSent

\* frameLoopRef.current = window.setTimeout(loop, ...): gen names the call
\* of startFrameLoop whose loop closure the timer runs
ScheduleLoop(s, gen) ==
  [s EXCEPT !.frameTimerCount = @ + 1,
            !.frameTimers = @ \cup {[id |-> s.frameTimerCount + 1, gen |-> gen]},
            !.frameLoopRef = s.frameTimerCount + 1]

\* stopFrameLoop(): clears the timer frameLoopRef names (a timer that has
\* fired already is not pending) and resets detectingRef
StopFrameLoop(s) ==
  [s EXCEPT !.frameTimers = {t \in @ : t.id # s.frameLoopRef},
            !.frameLoopRef = 0,
            !.detectingRef = FALSE]

\* startFrameLoop(): stopFrameLoop(), then the first timer of a new loop
StartFrameLoop(s, gen) == ScheduleLoop(StopFrameLoop(s), gen)

\* loop(), run by timer t: it waits another interval while a request is in
\* flight or the video has no frame; else it draws the frame and calls
\* canvas.toBlob, whose callback is pending when loop returns
Loop(s, t, ready) ==
  LET s1 == [s EXCEPT !.frameTimers = @ \ {t}]
  IN  IF s1.detectingRef \/ ~ready
      THEN ScheduleLoop(s1, t.gen)
      ELSE [s1 EXCEPT !.captured = @ + 1,
                      !.blobs = @ \cup {[id |-> t.id, gen |-> t.gen]}]

\* the callback of canvas.toBlob: without a blob it waits another interval;
\* else it sets detectingRef and sends the frame
BlobCallback(s, b, hasBlob) ==
  LET s1 == [s EXCEPT !.blobs = @ \ {b}]
  IN  IF ~hasBlob
      THEN ScheduleLoop(s1, b.gen)
      ELSE [s1 EXCEPT !.detectingRef = TRUE,
                      !.framesSent = @ + 1,
                      !.frameReqs = @ \cup {b}]

\* the finally block, after the frame request succeeded or failed
Finally(s, r) ==
  ScheduleLoop([s EXCEPT !.frameReqs = @ \ {r}, !.detectingRef = FALSE], r.gen)

LoopInit ==
  /\ frameLoopRef = 0
  /\ detectingRef = FALSE
  /\ frameTimers = {}
  /\ frameTimerCount = 0
  /\ blobs = {}
  /\ frameReqs = {}
  /\ starts = 0
  /\ ticks = 0
  /\ captured = 0
  /\ framesSent = 0
  /\ loopOn = FALSE

\* handleStartTracking / camera or video detection starts the loop
StartCall ==
  /\ starts < MaxStarts
  /\ LoopCommit(StartFrameLoop(LoopCur, starts + 1))
  /\ starts' = starts + 1
  /\ loopOn' = TRUE
  /\ UNCHANGED ticks
  /\ UNCHANGED <<hookVars, envVars, regVars, authVars>>

\* stop tracking, stop detection, a source switch or the unmount
StopCall ==
  /\ loopOn
  /\ LoopCommit(StopFrameLoop(LoopCur))
  /\ loopOn' = FALSE
  /\ UNCHANGED <<starts, ticks>>
  /\ UNCHANGED <<hookVars, envVars, regVars, authVars>>

\* a pending loop timer fires
LoopFire ==
  /\ ticks < MaxTicks
  /\ \E t \in frameTimers : \E ready \in BOOLEAN :
       LoopCommit(Loop(LoopCur, t, ready))
  /\ ticks' = ticks + 1
  /\ UNCHANGED <<starts, loopOn>>
  /\ UNCHANGED <<hookVars, envVars, regVars, authVars>>

\* the canvas has encoded the frame, or failed to
BlobReady ==
  /\ \E b \in blobs : \E hasBlob \in BOOLEAN :
       LoopCommit(BlobCallback(LoopCur, b, hasBlob))
  /\ UNCHANGED <<starts, ticks, loopOn>>
  /\ UNCHANGED <<hookVars, envVars, regVars, authVars>>

\* a frame request is answered, or fails
FrameRequestSettles ==
  /\ \E r \in frameReqs : LoopCommit(Finally(LoopCur, r))
  /\ UNCHANGED <<starts, ticks, loopOn>>
  /\ UNCHANGED <<hookVars, envVars, regVars, authVars>>

NextLoop ==
  \/ StartCall
  \/ StopCall
  \/ LoopFire
  \/ BlobReady
  \/ FrameRequestSettles

\* ------------------------------------------------------------------- Init
\* the hook after construction, before its effect has run
HookInit ==
  /\ phase = "init"
  /\ props \in Props
  /\ reruns = 0
  /\ connected = FALSE
  /\ lastMessage = Null
  /\ wsRef = 0
  /\ reconnectTimer = 0
  /\ sockets = <<>>
  /\ timers = {}
  /\ timerCount = 0
  /\ attempts = 0
  /\ received = <<>>
  /\ delivered = <<>>
  /\ sent = <<>>
  /\ sends = 0
  /\ uncaught = FALSE
  /\ closedFrom = [state |-> "none", timer |-> FALSE]

Init ==
  /\ HookInit
  /\ location = [protocol |-> "http:", host |-> "localhost:5173"]
  /\ url = "/api/ws/dashboard"
  /\ RegInit
  /\ AuthIs(Route(Loaded(NoToken), "/login"))
  /\ LoopInit

\* the server with no client task running: the hook stays as constructed,
\* with its default props
RegistryInit ==
  /\ Init
  /\ props = [enabled |-> TRUE, reconnectInterval |-> DefaultInterval]

\* the page alone: no socket task runs
PageInit ==
  /\ HookInit
  /\ props = [enabled |-> TRUE, reconnectInterval |-> DefaultInterval]
  /\ location = [protocol |-> "http:", host |-> "localhost:5173"]
  /\ url = "/api/ws/dashboard"
  /\ RegInit
  /\ AuthInit
  /\ LoopInit

\* the hook on any of the pages, with any of the endpoint paths
UrlInit ==
  /\ HookInit
  /\ location \in [protocol : PageProtocols, host : PageHosts]
  /\ url \in Paths
  /\ RegInit
  /\ AuthIs(Route(Loaded(NoToken), "/login"))
  /\ LoopInit

\* ---------------------------------------------------------------- actions
\* the effect runs for the first time: connect()
Mount ==
  /\ phase = "init"
  /\ \E throws \in BOOLEAN : Commit(Connect(Cur, Closure(props), throws))
  /\ phase' = "mounted"
  /\ UNCHANGED <<props, reruns, lastMessage, received, delivered, sent, sends,
                 uncaught, closedFrom>>
  /\ UNCHANGED otherVars

\* a render with other props: connect is a new closure, so the effect's
\* cleanup runs and then the effect, with the new connect
Rerun ==
  /\ phase = "mounted"
  /\ reruns < MaxReruns
  /\ \E p \in Props \ {props} :
       /\ p.enabled => attempts < MaxAttempts
       /\ props' = p
       /\ \E throws \in BOOLEAN : Commit(Connect(Cleanup(Cur), Closure(p), throws))
  /\ reruns' = reruns + 1
  /\ UNCHANGED <<phase, lastMessage, received, delivered, sent, sends, uncaught,
                 closedFrom>>
  /\ UNCHANGED otherVars

\* the component unmounts: the effect's cleanup runs
Unmount ==
  /\ phase = "mounted"
  /\ Commit(Cleanup(Cur))
  /\ phase' = "unmounted"
  /\ closedFrom' = [state |-> SocketState, timer |-> timers # {}]
  /\ UNCHANGED <<props, reruns, lastMessage, received, delivered, sent, sends,
                 uncaught>>
  /\ UNCHANGED otherVars

\* a pending timer fires: its callback is the connect closure it was given
TimerFire ==
  /\ attempts < MaxAttempts
  /\ \E t \in timers : \E throws \in BOOLEAN :
       Commit(Connect([Cur EXCEPT !.timers = @ \ {t}], t.cl, throws))
  /\ UNCHANGED <<phase, props, reruns, lastMessage, received, delivered, sent,
                 sends, uncaught, closedFrom>>
  /\ UNCHANGED otherVars

\* the connection of a connecting transport is established: open event
NetOpen ==
  /\ \E w \in SocketIds :
       /\ sockets[w].readyState = "CONNECTING"
       /\ Commit(OnOpen([Cur EXCEPT !.sockets[w].readyState = "OPEN",
                                    !.sockets[w].opened = TRUE], w))
  /\ UNCHANGED <<phase, props, reruns, lastMessage, received, delivered, sent,
                 sends, uncaught, closedFrom>>
  /\ UNCHANGED otherVars

\* an open transport receives a text frame: message event
NetMessage ==
  /\ Len(received) < MaxFrames
  /\ \E w \in SocketIds : sockets[w].readyState = "OPEN"
  /\ \E text \in Frames :
       /\ received' = Append(received, text)
       /\ lastMessage' = OnMessage(text).lastMessage
       /\ delivered' = OnMessage(text).delivered
       /\ uncaught' = (uncaught \/ OnMessage(text).uncaught)
  /\ UNCHANGED <<phase, props, reruns, connected, wsRef, reconnectTimer, sockets,
                 timers, timerCount, attempts, sent, sends, closedFrom>>
  /\ UNCHANGED otherVars

\* the connection of a transport fails (refused, dropped, or closed before it
\* was established): error event, then close event, in one task
NetError ==
  /\ \E w \in SocketIds :
       /\ Live(w)
       /\ Commit(OnClose(OnError([Cur EXCEPT !.sockets[w].readyState = "CLOSED"], w), w))
  /\ UNCHANGED <<phase, props, reruns, lastMessage, received, delivered, sent,
                 sends, uncaught, closedFrom>>
  /\ UNCHANGED otherVars

\* the closing handshake of a transport completes (started by the server, or
\* by close() of this side): close event
NetClose ==
  /\ \E w \in SocketIds :
       /\ sockets[w].readyState \in {"OPEN", "CLOSING"}
       /\ sockets[w].opened
       /\ Commit(OnClose([Cur EXCEPT !.sockets[w].readyState = "CLOSED"], w))
  /\ UNCHANGED <<phase, props, reruns, lastMessage, received, delivered, sent,
                 sends, uncaught, closedFrom>>
  /\ UNCHANGED otherVars

\* the application calls send(data); it holds send from the first render on
Send ==
  /\ sends < MaxSends
  /\ \E data \in SendData : sent' = sent \o SendOn(Cur, data)
  /\ sends' = sends + 1
  /\ UNCHANGED <<phase, props, reruns, connected, lastMessage, wsRef,
                 reconnectTimer, sockets, timers, timerCount, attempts, received,
                 delivered, uncaught, closedFrom>>
  /\ UNCHANGED otherVars

\* the tasks of the connection's life cycle
NextConn ==
  \/ Mount
  \/ Rerun
  \/ Unmount
  \/ TimerFire
  \/ NetOpen
  \/ NetError
  \/ NetClose

\* the life cycle, and the frames that arrive
NextMsg ==
  \/ NextConn
  \/ NetMessage

Next ==
  \/ NextMsg
  \/ Send

\* the whole hook
Spec == Init /\ [][Next]_vars

\* The connection alone: no frame arrives and send is not called.  Neither
\* NetMessage nor Send reads or writes what the life cycle works on.
ConnSpec == Init /\ [][NextConn]_vars

\* The connection and the frames it receives; send is not called.
MsgSpec == Init /\ [][NextMsg]_vars

\* The connection on every page and for every endpoint path.
UrlSpec == UrlInit /\ [][NextConn]_vars

\* The server's registry and dispatcher alone.
RegistrySpec == RegistryInit /\ [][NextRegistry]_vars

\* The page's API client, auth store and route guard alone.
AuthSpec == PageInit /\ [][NextAuth]_vars

\* The frame loop of a page alone.
LoopSpec == RegistryInit /\ [][NextLoop]_vars

\* The event loop runs every timer callback that is due: a pending timer
\* fires.
FairConnSpec == ConnSpec /\ WF_vars(TimerFire)

TypeOK ==
  /\ phase \in {"init", "mounted", "unmounted"}
  /\ props \in Props
  /\ connected \in BOOLEAN
  /\ wsRef \in 0..Len(sockets)
  /\ reconnectTimer \in 0..timerCount
  /\ attempts \in 0..MaxAttempts
  /\ \A t \in timers : t.id \in 1..timerCount

\* ============================================================== the claims
\* steps of the model, recognised from the outside
\* a transport's open event was dispatched in this step
OpenStep == \E w \in SocketIds : sockets[w].readyState = "CONNECTING" /\ sockets'[w].readyState = "OPEN"
\* a transport's close event was dispatched in this step
CloseStep == \E w \in SocketIds : Live(w) /\ sockets'[w].readyState = "CLOSED"
\* `new WebSocket` was called in this step
AttemptStep == attempts' > attempts
\* a frame was dispatched to onmessage in this step
MessageStep == Len(received') = Len(received) + 1
\* send was called in this step
SendStep == sends' = sends + 1
\* no transport is connecting or open
NoTransportUp == \A w \in SocketIds : sockets[w].readyState \notin {"CONNECTING", "OPEN"}

\* the frame dispatched in a MessageStep
LastReceived == received'[Len(received')]
\* a transport that opened has not yet had its close event
HasOpenTransport == \E w \in SocketIds : Live(w) /\ sockets[w].opened
\* the socket is enabled, not disposed, has no live transport, and k
\* connection attempts have been made
Stranded(k) ==
  phase = "mounted" /\ props.enabled /\ SocketState = "Disconnected" /\ attempts = k

\* the constructor threw in a connection attempt of this step
ThrowStep == attempts' = attempts + 1 /\ Len(sockets') = Len(sockets)
\* k connection attempts have been made and the constructor threw in each
NeverConstructed(k) ==
  phase = "mounted" /\ props.enabled /\ sockets = <<>> /\ attempts = k
\* the payloads of the parseable frames of fs, in the order of fs
RECURSIVE Payloads(_)
Payloads(fs) ==
  IF fs = <<>> THEN <<>>
  ELSE LET r == JSONparse(Head(fs))
       IN  (IF r.ok THEN <<r.value>> ELSE <<>>) \o Payloads(Tail(fs))

\* unregister was called in this step
UnregisterStep == lastOp' # lastOp /\ lastOp'.op = "unregister"
\* the connection was registered once and is on no channel now
Removed(c) == conn[c] # "fresh" /\ \A ch \in Channels : c \notin registry[ch]
\* the events a connection's client received
Received(c) == {inbox[c][i] : i \in 1..Len(inbox[c])}

\* a response passed the interceptor in this step
RespondStep == intercepted' # intercepted /\ intercepted'.status # -1
\* the request the response of this step answers
Answered == CHOOSE r \in reqs : r.id = intercepted'.req
\* what the page shows
Screen ==
  IF pathname = "/login" THEN "login"
  ELSE IF ~guardMounted THEN "unguarded"
  ELSE GuardShows(token, checking)

\* the transports that are connecting or open
UpTransports == {w \in SocketIds : sockets[w].readyState \in {"CONNECTING", "OPEN"}}

\* the transports that are open
OpenTransports == {w \in SocketIds : sockets[w].readyState = "OPEN"}
\* the effect's cleanup ran in this step: the socket was disposed, or its
\* effect re-ran
CleanupStep == phase = "mounted" /\ (phase' = "unmounted" \/ reruns' = reruns + 1)

\* the callback threw on a payload it was given before
CallbackThrewBefore == \E i \in 1..Len(delivered) : CallbackThrows(delivered[i])

\* C1: disposing the socket while its transport is Connecting or Connected
\* closes that transport and leaves no reconnect timer alive: from the
\* disposal on no transport is connecting or open, no timer is pending or
\* scheduled, and no connection attempt is made.
C1_DisposeLiveLeavesNothing ==
  /\ [](closedFrom.state \in {"Connecting", "Connected"} => timers = {} /\ NoTransportUp)
  /\ [][closedFrom.state \in {"Connecting", "Connected"} => ~AttemptStep]_vars

\* C2: disposing the socket while it is Disconnected with a reconnect timer
\* pending cancels the timer: from the disposal on no timer is pending, none
\* fires and no transport is created.
C2_DisposeIdleCancelsTimer ==
  /\ [](closedFrom.state = "Disconnected" /\ closedFrom.timer => timers = {})
  /\ [][closedFrom.state = "Disconnected" /\ closedFrom.timer => ~AttemptStep]_vars

\* C3: while the socket is enabled and not disposed, every entry into
\* Disconnected is followed by a new connection attempt: whenever it is
\* Disconnected a reconnect timer is pending, and from every such state with k
\* attempts made so far an attempt k+1 follows (unless the socket is disposed
\* or disabled first), for every k below the bound of the model.
C3_ReconnectsAfterEveryFailure ==
  /\ [](phase = "mounted" /\ props.enabled /\ SocketState = "Disconnected" => timers # {})
  /\ \A k \in 0..(MaxAttempts - 1) :
       Stranded(k) ~> (attempts > k \/ phase # "mounted" \/ ~props.enabled)

\* C3 witness: three connection attempts in a row have failed, none ever
\* opened, and the timer of the next attempt is pending.
C3_Witness ==
  /\ phase = "mounted" /\ reruns = 0 /\ attempts = 3
  /\ \A w \in SocketIds : ~sockets[w].opened
  /\ SocketState = "Disconnected" /\ timers # {}

\* C4: a successful transport open leaves no reconnect timer pending, and
\* while a transport is open no second transport is connecting or open.
C4_OpenLeavesNoTimerNoSecondTransport ==
  /\ [][OpenStep => timers' = {}]_vars
  /\ [](\A w \in SocketIds : sockets[w].readyState = "OPEN" =>
          \A v \in SocketIds \ {w} : sockets[v].readyState \notin {"CONNECTING", "OPEN"})

\* C5: once the socket is Closed nothing happens any more: the message
\* callback is not invoked, connected and lastMessage do not change, no timer
\* is scheduled or fires, no connection attempt is made.
C5_ClosedIsTerminal ==
  [][phase = "unmounted" =>
       UNCHANGED <<delivered, connected, lastMessage, timers, attempts>>]_vars

\* C6: a frame that does not parse as JSON changes nothing (connected,
\* lastMessage, the callback's invocations, the transports, the timers) and
\* lets no exception escape; a later frame that parses is delivered to the
\* callback.
C6_MalformedFrameDropped ==
  /\ [][MessageStep /\ ~JSONparse(LastReceived).ok =>
          /\ UNCHANGED <<connected, lastMessage, delivered, sockets, wsRef,
                         timers, reconnectTimer>>
          /\ ~uncaught']_vars
  /\ [][MessageStep /\ JSONparse(LastReceived).ok =>
          delivered' = Append(delivered, JSONparse(LastReceived).value)]_vars

\* C6 witness: a heartbeat frame was dropped, the frame after it was
\* delivered, and the socket is still connected.
C6_Witness ==
  /\ received = <<"ping", "{\"type\":\"stats\"}">>
  /\ delivered = <<[kind |-> "object", type |-> "stats"]>>
  /\ connected /\ SocketState = "Connected"

\* C7: send while the socket is Disconnected, Connecting or Closed transmits
\* nothing, and nothing is transmitted later on its behalf (only a call of
\* send ever transmits).
C7_SendDroppedUnlessConnected ==
  /\ [][SendStep /\ SocketState \in {"Disconnected", "Connecting", "Closed"} =>
          sent' = sent]_vars
  /\ [][~SendStep => sent' = sent]_vars

\* C8: every reconnect timer is scheduled with the configured
\* reconnectInterval as its delay.
C8_DelayIsConfiguredInterval ==
  [][\A t \in timers' \ timers : t.delay = props'.reconnectInterval]_vars

\* C9: the close of a transport (after an error or not) schedules exactly one
\* reconnect timer, and at most one reconnect timer is pending at any moment.
C9_AtMostOneTimer ==
  /\ [][CloseStep => Cardinality(timers' \ timers) = 1]_vars
  /\ [](Cardinality(timers) <= 1)

\* C10: connected is true only while a transport that opened has not yet had
\* its close event, so it is false in Disconnected and Connecting; it becomes
\* true in the step of an open event and false in the step of every close
\* event (with or without an error event); no exception escapes the hook.
C10_ConnectedTracksTransport ==
  /\ [](connected => HasOpenTransport)
  /\ [](SocketState \in {"Disconnected", "Connecting"} => ~connected)
  /\ [](~uncaught)
  /\ [][OpenStep => connected']_vars
  /\ [][CloseStep => ~connected']_vars

\* C10 witness: a transport opened and then failed; connected is false again
\* and the failure shows in no other way.
C10_Witness ==
  /\ phase = "mounted" /\ ~connected /\ ~uncaught
  /\ \E w \in SocketIds : sockets[w].opened /\ sockets[w].readyState = "CLOSED"
  /\ timers # {}


\* C11: the callback is invoked exactly once for every parseable frame, in
\* the order the transport delivered the frames: the payloads handed to the
\* callback are the parsed parseable frames received, in their order, none
\* twice and none missing.
C11_CallbackInTransportOrder == delivered = Payloads(received)

C11_Witness ==
  /\ received = <<"{\"type\":\"stats\"}", "null">>
  /\ delivered = <<[kind |-> "object", type |-> "stats"], Null>>

\* C12: when the WebSocket constructor throws, nothing escapes connect():
\* the catch block schedules one reconnect, after the reconnectInterval of
\* that connect, and keeps it in reconnectTimer; the socket keeps retrying:
\* while it is mounted and enabled, another attempt follows every attempt
\* whose constructor threw.
C12_ConstructorFailureRetried ==
  /\ [][ThrowStep =>
          /\ ~uncaught'
          /\ Cardinality(timers' \ timers) = 1
          /\ \A t \in timers' \ timers :
                /\ t.id = reconnectTimer'
                /\ t.delay = t.cl.reconnectInterval
                /\ t.delay \in Intervals]_vars
  /\ \A k \in 1..(MaxAttempts - 1) :
       NeverConstructed(k) ~> (attempts > k \/ phase # "mounted" \/ ~props.enabled)

C12_Witness ==
  /\ phase = "mounted" /\ props.enabled /\ attempts = 2 /\ sockets = <<>>
  /\ ~uncaught /\ Cardinality(timers) = 1

\* C19: every transport is constructed with the scheme wss: when the page
\* was loaded over https: and with ws: otherwise, then //, the page's own
\* host and the path given in url.
C19_SchemeFollowsPage ==
  \A w \in SocketIds :
    /\ location.protocol = "https:" =>
          sockets[w].url = "wss://" \o location.host \o url
    /\ location.protocol # "https:" =>
          sockets[w].url = "ws://" \o location.host \o url

C19_Witness ==
  /\ location.protocol = "https:" /\ location.host = "uav.example.com"
  /\ url = "/api/ws/telemetry"
  /\ Len(sockets) = 2
  /\ sockets[2].url = "wss://uav.example.com/api/ws/telemetry"

\* C20: lastMessage is the payload of the most recent parseable frame, or
\* null when no parseable frame was received; it is set before the callback
\* is invoked, so it is set also for a frame whose callback throws.
C20_LastMessageIsLatestPayload ==
  lastMessage = IF Payloads(received) = <<>> THEN Null
                ELSE Payloads(received)[Len(Payloads(received))]

\* the second frame's callback threw, and lastMessage is that frame's payload
C20_Witness ==
  /\ received = <<"{\"type\":\"stats\"}", "null">>
  /\ CallbackThrows(delivered[Len(delivered)])
  /\ lastMessage = Null /\ ~uncaught

\* C13: broadcast isolates the failure of a delivery: no call raises to its
\* caller; when broadcast has returned, every connection of its iteration
\* that did not fail has received the event; a connection that failed is
\* absent from the registry from then on, and the next broadcast does not
\* iterate over it.
C13_BroadcastIsolatesFailures ==
  /\ [](~raised)
  /\ [](bc.stage = "returned" =>
          /\ bc.got = bc.snapshot \ bc.failed
          /\ \A c \in bc.got : bc.event \in Received(c))
  /\ [](\A c \in bc.failed : c \notin registry[bc.channel])
  /\ [][events' = events + 1 => bc'.snapshot \cap bc.failed = {}]_vars

\* three connections are registered, the second fails, the others receive
C13_Witness ==
  /\ bc.stage = "returned" /\ bc.snapshot = {1, 2, 3}
  /\ bc.failed = {2} /\ bc.got = {1, 3}
  /\ inbox[1] = <<1>> /\ inbox[2] = <<>> /\ inbox[3] = <<1>>
  /\ registry["dashboard"] = {1, 3} /\ ~raised

\* C14: a connection that was removed from the registry receives no event
\* from then on, whatever the broadcast in progress still has to deliver.
C14_RemovedReceivesNothing ==
  [][\A c \in Conns : Removed(c) => inbox'[c] = inbox[c]]_vars

\* connection 2 was unregistered while the broadcast had yet to deliver to
\* it; the broadcast went on and delivered to connection 1 only
C14_Witness ==
  /\ bc.stage = "returned" /\ bc.snapshot = {1, 2}
  /\ bc.got = {1} /\ bc.failed = {2}
  /\ lastOp.op = "unregister" /\ lastOp.conn = 2 /\ ~lastOp.absent
  /\ inbox[2] = <<>>

\* C15: unregister never raises, and a call for a connection that is absent
\* (removed before, or never registered) changes nothing: it leaves the
\* registry as the single call left it.
C15_UnregisterIdempotent ==
  [][UnregisterStep =>
       /\ ~raised'
       /\ lastOp'.conn \notin registry'[lastOp'.channel]
       /\ lastOp'.absent =>
             UNCHANGED <<registry, conn, bc, inbox, raised, events>>]_vars

\* unregister was called twice in a row for a connection that was registered
C15_Witness ==
  /\ lastOp.op = "unregister" /\ lastOp.again /\ lastOp.absent
  /\ conn[lastOp.conn] = "closed" /\ ~raised
  /\ registry["dashboard"] # {}

\* C16: broadcast delivers to the connections registered when its iteration
\* began and to no other: every one of them is visited once (it received the
\* event, failed, or is yet to be visited), no connection receives an event
\* twice, and when broadcast has returned every connection of the iteration
\* that is still live has received the event.
C16_DeliversToSnapshot ==
  bc.stage # "none" =>
    /\ bc.got \cup bc.failed \cup bc.pending = bc.snapshot
    /\ bc.got \cap bc.failed = {} /\ bc.got \cap bc.pending = {}
    /\ bc.failed \cap bc.pending = {}
    /\ \A c \in Conns :
         /\ bc.event \in Received(c) <=> c \in bc.got
         /\ Cardinality(Received(c)) = Len(inbox[c])
    /\ bc.stage = "returned" =>
         \A c \in bc.snapshot :
           conn[c] = "open" /\ c \in registry[bc.channel] => c \in bc.got

\* connection 3 registered and connection 2 was removed while the broadcast
\* over {1, 2} was iterating
C16_Witness ==
  /\ bc.stage = "iterating" /\ bc.pending = {} /\ bc.snapshot = {1, 2}
  /\ bc.got = {1} /\ bc.failed = {2}
  /\ registry["dashboard"] = {1, 3} /\ conn[3] = "open" /\ inbox[3] = <<>>

C18_GuardNeverShowsUnverified ==
  /\ Screen \in {"children", "unguarded"} => token # NoToken /\ user # NoUser
  /\ token = NoToken => Screen = "login"
  /\ pathname # "/login" /\ token # NoToken /\ user = NoUser => Screen = "checking"

\* the page loaded at /dashboard with a stored token, and fetchMe failed
C18_Witness ==
  /\ nreq = 1 /\ intercepted.status = 500 /\ intercepted.after = "jwt"
  /\ token = NoToken /\ localToken = NoToken /\ user = NoUser
  /\ pathname = "/login" /\ ~guardMounted

\* C21: the hook has at most one transport that is connecting or open and
\* at most one reconnect chain at any time, also after its effect re-ran: a
\* pending reconnect timer and a transport that is connecting or open never
\* exist side by side, and never two of either.
C21_OneTransportOneChain ==
  Cardinality(UpTransports) + Cardinality(timers) <= 1

\* C22: whenever a transport of the hook is open and connected is true,
\* wsRef refers to an open transport, so that send transmits its data on it
\* and the cleanup of the effect closes it; the close event of a superseded
\* transport does not clear wsRef.
C22_RefTracksOpenTransport ==
  /\ [](connected /\ OpenTransports # {} => wsRef \in OpenTransports)
  /\ [][SendStep /\ connected /\ OpenTransports # {} =>
          /\ Len(sent') = Len(sent) + 1
          /\ sent'[Len(sent')][1] \in OpenTransports]_vars
  /\ [][CleanupStep /\ connected =>
          \A w \in OpenTransports : sockets'[w].readyState # "OPEN"]_vars

\* C23: while enabled is false the hook makes no connection attempt: no
\* transport is connecting or open, no reconnect timer is pending, and no
\* step that ends with enabled false constructs a transport.
C23_DisabledMakesNoAttempt ==
  /\ [](phase # "unmounted" /\ ~props.enabled => UpTransports = {} /\ timers = {})
  /\ [][phase' # "unmounted" /\ ~props'.enabled => attempts' = attempts]_vars

\* C24: an exception of the onMessage callback stays inside the handler:
\* the frame's payload is in lastMessage, the callback was invoked, nothing
\* escapes, the transports, connected, wsRef and the timers are as before;
\* and after such an exception a parseable frame still reaches the callback.
C24_CallbackExceptionContained ==
  /\ [][MessageStep /\ JSONparse(LastReceived).ok
          /\ CallbackThrows(JSONparse(LastReceived).value) =>
            /\ lastMessage' = JSONparse(LastReceived).value
            /\ delivered' = Append(delivered, JSONparse(LastReceived).value)
            /\ ~uncaught'
            /\ UNCHANGED <<connected, sockets, wsRef, timers, reconnectTimer,
                           attempts>>]_vars
  /\ [][MessageStep /\ JSONparse(LastReceived).ok /\ CallbackThrewBefore =>
            delivered' = Append(delivered, JSONparse(LastReceived).value)]_vars

\* the callback threw on the first frame; the second one was delivered on
\* the same open transport
C24_Witness ==
  /\ received = <<"null", "{\"type\":\"stats\"}">>
  /\ delivered = <<Null, [kind |-> "object", type |-> "stats"]>>
  /\ lastMessage = [kind |-> "object", type |-> "stats"]
  /\ connected /\ Len(sockets) = 1 /\ sockets[1].readyState = "OPEN"
  /\ timers = {} /\ ~uncaught

\* C25: after stopFrameLoop, and until startFrameLoop is called again, no
\* frame is captured, none is sent to the backend, and no loop timer is
\* scheduled, also when a frame request was in flight at the stop.
C25_StoppedLoopStaysStopped ==
  [][~loopOn /\ ~loopOn' =>
       /\ captured' = captured
       /\ framesSent' = framesSent
       /\ frameTimers' \subseteq frameTimers]_vars

\* C26: at most one frame request is in flight and at most one loop timer
\* is pending at any time.
C26_OneRequestOneTimer ==
  Cardinality(frameReqs) <= 1 /\ Cardinality(frameTimers) <= 1

\* C27: a failed login leaves the user unauthenticated: when login() returns
\* false (the login request failed, or it succeeded and getMe failed) the
\* store token is null and localStorage holds no token; and the store token
\* and the localStorage token agree after every step of login, logout and
\* fetchMe and after every 401 response
C27_FailedLoginUnauthenticated ==
  /\ [][RespondStep /\ Answered.by = "login" /\ loginResult' = "false" =>
          token' = NoToken /\ localToken' = NoToken]_vars
  /\ [][RespondStep /\ (Answered.by \in {"login", "fetchMe"}
                          \/ intercepted'.status = 401) =>
          token' = localToken']_vars
  /\ [][token # NoToken /\ token' = NoToken => token' = localToken']_vars
====
